---- MODULE Spec2Model ----
(***************************************************************************)
(* A model of the Codex installer (src/src/installers/codex.rs): the four  *)
(* operations of the Installer trait acting on a file system that holds    *)
(* the identity files, the per-agent skill directories and the shared      *)
(* JSON tool registry config.json.                                         *)
(*                                                                         *)
(* Names (agent, skill and tool names) are plain file-name stems: no path  *)
(* separators and no dot components.  File-system calls do not fail for    *)
(* environmental reasons (permissions, disk full) in Spec; they fail only  *)
(* for the structural reasons the operators below state.                   *)
(***************************************************************************)
EXTENDS Integers, Sequences, FiniteSets, TLC

\* ------------------------------------------------------------------ bounds

\* Longest agent.skills sequence handed to install_skills.
MaxSkills == 2

\* Longest agent.mcp sequence handed to install_tools.
MaxTools == 2

\* ----------------------------------------------------------------- Option

None == [some |-> FALSE]

Some(x) == [some |-> TRUE, v |-> x]

\* Option::unwrap_or
unwrap_or(opt, default) == IF opt.some THEN opt.v ELSE default

\* --------------------------------------------------------- serde_json::Value
\* A Value is a tagged record; an object's map is a function from its keys.

JNull == [t |-> "null"]

JBool(b) == [t |-> "bool", b |-> b]

JNum(lit) == [t |-> "num", lit |-> lit]

JStr(s) == [t |-> "str", s |-> s]

JArr(a) == [t |-> "arr", a |-> a]

JObj(o) == [t |-> "obj", o |-> o]

\* json!({})
EmptyMap == [k \in {} |-> JNull]

\* Value::get(&str): None unless the value is an object that has the key.
value_get(v, key) ==
    IF v.t = "obj" /\ key \in DOMAIN v.o THEN Some(v.o[key]) ELSE None

\* Map::insert: the key's previous value, if any, is replaced.
map_insert(o, key, val) ==
    [k \in (DOMAIN o) \cup {key} |-> IF k = key THEN val ELSE o[k]]

\* IndexMut<&str> for Value (`v[key] = val`): Null first becomes an empty
\* object; an object takes the entry; any other value panics.
index_set(v, key, val) ==
    IF v.t = "null" THEN [panic |-> FALSE, v |-> JObj(map_insert(EmptyMap, key, val))]
    ELSE IF v.t = "obj" THEN [panic |-> FALSE, v |-> JObj(map_insert(v.o, key, val))]
    ELSE [panic |-> TRUE, v |-> v]

\* ------------------------------------------------------- JSON text on disk
\* A file of the registry holds bytes.  The bytes are one of
\*   [k |-> "binary"]                 not valid UTF-8
\*   [k |-> "text", id |-> ..]        UTF-8 text that is not a JSON document
\*   [k |-> "json", layout, syn]      a JSON document: its layout ("compact"
\*                                    or "pretty") and its syntax tree, where
\*                                    an object is the SEQUENCE of its members
\*                                    as written (any order, keys may repeat).

SNull == [t |-> "null"]

SBool(b) == [t |-> "bool", b |-> b]

SNum(lit) == [t |-> "num", lit |-> lit]

SStr(s) == [t |-> "str", s |-> s]

SArr(a) == [t |-> "arr", a |-> a]

SObj(m) == [t |-> "obj", m |-> m]

\* The object keys of the model in byte order, the order of serde_json's
\* BTreeMap-backed Map.
KeyOrder == <<"KEY", "args", "bar", "baz", "command", "disabled", "env", "foo", "mcpServers">>

\* Index of the last member of m written with the key.
LastMember(m, key) ==
    CHOOSE i \in DOMAIN m : m[i][1] = key /\ \A j \in DOMAIN m : m[j][1] = key => j <= i

\* The Value a syntax tree parses to: of the members that repeat a key the
\* last one wins.
RECURSIVE syntax_to_value(_)
syntax_to_value(s) ==
    IF s.t = "obj"
    THEN JObj([k \in {s.m[i][1] : i \in DOMAIN s.m} |->
                syntax_to_value(s.m[LastMember(s.m, k)][2])])
    ELSE IF s.t = "arr"
    THEN JArr([i \in DOMAIN s.a |-> syntax_to_value(s.a[i])])
    ELSE s

\* fs::read_to_string: an error when the bytes are not valid UTF-8.
read_to_string(bytes) ==
    IF bytes.k = "binary" THEN [ok |-> FALSE] ELSE [ok |-> TRUE, text |-> bytes]

\* serde_json::from_str
from_str(text) ==
    IF text.k = "json" THEN [ok |-> TRUE, v |-> syntax_to_value(text.syn)]
    ELSE [ok |-> FALSE]

\* The keys of a map in serialization order.
SortedKeys(o) == SelectSeq(KeyOrder, LAMBDA k : k \in DOMAIN o)

\* The syntax tree serde_json writes for a Value: members in key order.
RECURSIVE value_to_syntax(_)
value_to_syntax(v) ==
    IF v.t = "obj"
    THEN SObj([i \in DOMAIN SortedKeys(v.o) |->
                <<SortedKeys(v.o)[i], value_to_syntax(v.o[SortedKeys(v.o)[i]])>>])
    ELSE IF v.t = "arr"
    THEN SArr([i \in DOMAIN v.a |-> value_to_syntax(v.a[i])])
    ELSE v

\* serde_json::to_string_pretty
to_string_pretty(v) == [k |-> "json", layout |-> "pretty", syn |-> value_to_syntax(v)]

\* ------------------------------------------------------------- file system
\* A path is the sequence of its components below the configuration root, so
\* <<>> is the base directory itself.  A file system is [dirs, files]: the
\* set of directories and a function from the paths of the files to bytes.

Parent(p) == SubSeq(p, 1, Len(p) - 1)

IsPrefix(p, q) == Len(p) <= Len(q) /\ SubSeq(q, 1, Len(p)) = p

Prefixes(p) == {SubSeq(p, 1, i) : i \in 0..Len(p)}

\* Path::join
join(p, component) == Append(p, component)

\* Path::exists
exists(fs, p) == p \in fs.dirs \/ p \in DOMAIN fs.files

\* fs::create_dir_all: creates the directory and every missing ancestor;
\* fails when a component of the path is a file.
create_dir_all(fs, p) ==
    IF \E q \in Prefixes(p) : q \in DOMAIN fs.files
    THEN [ok |-> FALSE, fs |-> fs]
    ELSE [ok |-> TRUE, fs |-> [fs EXCEPT !.dirs = @ \cup Prefixes(p)]]

\* fs::write: creates the file or replaces its whole content; fails when the
\* parent directory is missing or the path is a directory.
fs_write(fs, p, bytes) ==
    IF Parent(p) \notin fs.dirs \/ p \in fs.dirs
    THEN [ok |-> FALSE, fs |-> fs]
    ELSE [ok |-> TRUE,
          fs |-> [fs EXCEPT !.files =
                    [q \in (DOMAIN fs.files) \cup {p} |->
                        IF q = p THEN bytes ELSE fs.files[q]]]]

\* fs::write is File::create, which truncates the file, and then write_all.
\* `how` is how the call ends: "ok"; "denied", the file cannot be opened;
\* "truncated", write_all fails before a byte is written; "partial", write_all
\* fails after the first bytes.  A document that is cut holds its first line.
EmptyFile == [k |-> "text", id |-> ""]

CutFile == [k |-> "text", id |-> "{\n"]

fs_write_io(fs, p, bytes, how) ==
    IF how = "ok" THEN fs_write(fs, p, bytes)
    ELSE IF how = "denied" \/ ~fs_write(fs, p, bytes).ok THEN [ok |-> FALSE, fs |-> fs]
    ELSE [ok |-> FALSE,
          fs |-> fs_write(fs, p, IF how = "truncated" THEN EmptyFile ELSE CutFile).fs]

\* fs::remove_file: fails when the path is not a file.
remove_file(fs, p) ==
    IF p \notin DOMAIN fs.files
    THEN [ok |-> FALSE, fs |-> fs]
    ELSE [ok |-> TRUE,
          fs |-> [fs EXCEPT !.files = [q \in (DOMAIN fs.files) \ {p} |-> fs.files[q]]]]

\* fs::remove_dir_all: removes the directory and everything below it; fails
\* when the path is not a directory.
remove_dir_all(fs, p) ==
    IF p \notin fs.dirs
    THEN [ok |-> FALSE, fs |-> fs]
    ELSE [ok |-> TRUE,
          fs |-> [dirs  |-> {d \in fs.dirs : ~IsPrefix(p, d)},
                  files |-> [q \in {f \in DOMAIN fs.files : ~IsPrefix(p, f)} |->
                                fs.files[q]]]]

\* -------------------------------------------------------------- AgentConfig

AgentConfig(name, description, identity, skills, mcp) ==
    [name |-> name, description |-> description, identity |-> identity,
     skills |-> skills, mcp |-> mcp]

Identity(system_prompt, model, icon) ==
    [system_prompt |-> system_prompt, model |-> model, icon |-> icon]

Skill(name, content) == [name |-> name, content |-> content]

McpTool(name, command, args, env, setup_url) ==
    [name |-> name, command |-> command, args |-> args, env |-> env,
     setup_url |-> setup_url]

\* ------------------------------------------------------------ CodexInstaller

\* CodexInstaller::new
CodexInstaller_new(global) == [target |-> "Codex", global |-> global]

\* The factory: the adapter of a target.  Of the three targets the Codex
\* adapter is the one modelled.
get_installer(target, global) ==
    IF target = "Codex" THEN CodexInstaller_new(global)
    ELSE [target |-> target, global |-> global]

\* The path resolver as the specification has it:
\* resolve_base_dir(target, global), one directory for a global and another
\* for a local installation.
resolve_base_dir(target, global) ==
    LET dir == IF target = "Codex" THEN ".codex"
               ELSE IF target = "Claude" THEN ".claude" ELSE ".cursor"
    IN  IF global THEN "~/" \o dir ELSE "./" \o dir

\* paths::codex_config_dir(), the resolver as the installer calls it: it is
\* given no flag, and the module names ~/.codex as its directory.
codex_config_dir == resolve_base_dir("Codex", TRUE)

\* The directory get_base_dir resolves for an installer: self.global is not
\* read.
base_dir_of(self) == codex_config_dir

\* The base directory of the Codex configuration.  `resolved` is the outcome
\* of paths::codex_config_dir(), the path resolver.
get_base_dir(resolved) ==
    IF resolved THEN [ok |-> TRUE, path |-> <<>>] ELSE [ok |-> FALSE]

get_agents_dir(resolved) ==
    IF get_base_dir(resolved).ok
    THEN [ok |-> TRUE, path |-> join(get_base_dir(resolved).path, "agents")]
    ELSE [ok |-> FALSE]

get_config_path(resolved) ==
    IF get_base_dir(resolved).ok
    THEN [ok |-> TRUE, path |-> join(get_base_dir(resolved).path, "config.json")]
    ELSE [ok |-> FALSE]

\* The robot glyph, U+1F916, written by its code point.
DefaultIcon == "U+1F916"

DefaultModel == "gpt-4o"

\* A header that gives the icon before the model.
generate_agent_markdown_swapped(agent) ==
    "---\nname: " \o agent.name
      \o "\ndescription: " \o agent.description
      \o "\nicon: " \o unwrap_or(agent.identity.icon, DefaultIcon)
      \o "\nmodel: " \o unwrap_or(agent.identity.model, DefaultModel)
      \o "\n---\n\n" \o agent.identity.system_prompt

\* A header whose icon falls back to the default whenever the model does.
generate_agent_markdown_coupled(agent) ==
    "---\nname: " \o agent.name
      \o "\ndescription: " \o agent.description
      \o "\nmodel: " \o unwrap_or(agent.identity.model, DefaultModel)
      \o "\nicon: " \o (IF agent.identity.model.some
                          THEN unwrap_or(agent.identity.icon, DefaultIcon)
                          ELSE DefaultIcon)
      \o "\n---\n\n" \o agent.identity.system_prompt

\* The identity document: the header, then the system prompt as it is.
generate_agent_markdown(agent) ==
    "---\nname: " \o agent.name
      \o "\ndescription: " \o agent.description
      \o "\nmodel: " \o unwrap_or(agent.identity.model, DefaultModel)
      \o "\nicon: " \o unwrap_or(agent.identity.icon, DefaultIcon)
      \o "\n---\n\n" \o agent.identity.system_prompt

\* The outcome of one operation: "ok", "err" (an Err returned) or "panic",
\* with the file system it leaves.
Outcome(res, fs) == [res |-> res, fs |-> fs]

\* `rs` gives the outcome of each path resolution the call makes, in order.
install_identity(fs, rs, agent) ==
    LET agents_dir == get_agents_dir(rs[1]) IN
    IF ~agents_dir.ok THEN Outcome("err", fs) ELSE
    LET d == create_dir_all(fs, agents_dir.path) IN
    IF ~d.ok THEN Outcome("err", d.fs) ELSE
    LET agent_file == join(agents_dir.path, agent.name \o ".md")
        w == fs_write(d.fs, agent_file, generate_agent_markdown(agent))
    IN  IF ~w.ok THEN Outcome("err", w.fs) ELSE Outcome("ok", w.fs)

\* The loop of install_skills from the i-th skill on.
RECURSIVE write_skills(_, _, _, _)
write_skills(fs, skills_dir, skills, i) ==
    IF i > Len(skills) THEN Outcome("ok", fs) ELSE
    LET skill_file == join(skills_dir, skills[i].name \o ".md")
        w == fs_write(fs, skill_file, skills[i].content)
    IN  IF ~w.ok THEN Outcome("err", w.fs)
        ELSE write_skills(w.fs, skills_dir, skills, i + 1)

\* An install_skills with no early return for an empty sequence.
install_skills_eager(fs, rs, agent) ==
    LET base_dir == get_base_dir(rs[1]) IN
    IF ~base_dir.ok THEN Outcome("err", fs) ELSE
    LET skills_dir == join(join(base_dir.path, "skills"), agent.name)
        d == create_dir_all(fs, skills_dir)
    IN  IF ~d.ok THEN Outcome("err", d.fs)
        ELSE write_skills(d.fs, skills_dir, agent.skills, 1)

\* An install_skills that empties the agent's directory first (a full sync).
install_skills_sync(fs, rs, agent) ==
    IF agent.skills = <<>> THEN Outcome("ok", fs) ELSE
    LET base_dir == get_base_dir(rs[1]) IN
    IF ~base_dir.ok THEN Outcome("err", fs) ELSE
    LET skills_dir == join(join(base_dir.path, "skills"), agent.name)
        cleared == IF skills_dir \in fs.dirs THEN remove_dir_all(fs, skills_dir).fs ELSE fs
        d == create_dir_all(cleared, skills_dir)
    IN  IF ~d.ok THEN Outcome("err", d.fs)
        ELSE write_skills(d.fs, skills_dir, agent.skills, 1)

install_skills(fs, rs, agent) ==
    IF agent.skills = <<>> THEN Outcome("ok", fs) ELSE
    LET base_dir == get_base_dir(rs[1]) IN
    IF ~base_dir.ok THEN Outcome("err", fs) ELSE
    LET skills_dir == join(join(base_dir.path, "skills"), agent.name)
        d == create_dir_all(fs, skills_dir)
    IN  IF ~d.ok THEN Outcome("err", d.fs)
        ELSE write_skills(d.fs, skills_dir, agent.skills, 1)

\* json!({"command": .., "args": .., "env": ..})
tool_config(tool) ==
    JObj([k \in {"command", "args", "env"} |->
            CASE k = "command" -> JStr(tool.command)
              [] k = "args"    -> JArr([i \in DOMAIN tool.args |-> JStr(tool.args[i])])
              [] k = "env"     -> JObj([e \in DOMAIN tool.env |-> JStr(tool.env[e])])])

\* An insertion that keeps the entry a name already has.
set_server_keep(config, tool) ==
    LET servers == IF config.t = "obj" /\ "mcpServers" \in DOMAIN config.o
                   THEN config.o["mcpServers"] ELSE JNull
        inner == IF servers.t = "obj" /\ tool.name \in DOMAIN servers.o
                 THEN [panic |-> FALSE, v |-> servers]
                 ELSE index_set(servers, tool.name, tool_config(tool))
    IN  IF config.t \notin {"obj", "null"} \/ inner.panic
        THEN [panic |-> TRUE, v |-> config]
        ELSE index_set(config, "mcpServers", inner.v)

\* An assignment that makes the tool the one entry of mcpServers.
set_server_alone(config, tool) ==
    LET inner == index_set(JNull, tool.name, tool_config(tool))
    IN  IF config.t \notin {"obj", "null"}
        THEN [panic |-> TRUE, v |-> config]
        ELSE index_set(config, "mcpServers", inner.v)

\* config["mcpServers"][&tool.name] = tool_config
set_server(config, tool) ==
    LET servers == IF config.t = "obj" /\ "mcpServers" \in DOMAIN config.o
                   THEN config.o["mcpServers"] ELSE JNull
        inner == index_set(servers, tool.name, tool_config(tool))
    IN  IF config.t \notin {"obj", "null"} \/ inner.panic
        THEN [panic |-> TRUE, v |-> config]
        ELSE index_set(config, "mcpServers", inner.v)

\* The notice printed for a tool that carries a setup_url.
setup_notice(tool) ==
    IF tool.setup_url.some THEN <<[tool |-> tool.name, url |-> tool.setup_url.v]>>
    ELSE <<>>

\* The loop of install_tools from the i-th tool on: the merged config and the
\* notices printed so far.
\* `sink` tells whether stdout accepts what println! writes; println! panics
\* when it does not.
RECURSIVE add_tools_io(_, _, _, _, _)
add_tools_io(config, mcp, i, notices, sink) ==
    IF i > Len(mcp) THEN [panic |-> FALSE, v |-> config, notices |-> notices] ELSE
    LET s == set_server(config, mcp[i]) IN
    IF s.panic THEN [panic |-> TRUE, v |-> config, notices |-> notices]
    ELSE IF setup_notice(mcp[i]) # <<>> /\ ~sink
    THEN [panic |-> TRUE, v |-> s.v, notices |-> notices]
    ELSE add_tools_io(s.v, mcp, i + 1, notices \o setup_notice(mcp[i]), sink)

add_tools(config, mcp, i, notices) == add_tools_io(config, mcp, i, notices, TRUE)

\* A load that ignores what the file holds.
load_config_fresh(fs, config_path) == [ok |-> TRUE, v |-> JObj(EmptyMap)]

\* Load existing config or create new one.
load_config(fs, config_path) ==
    IF exists(fs, config_path)
    THEN IF config_path \notin DOMAIN fs.files THEN [ok |-> FALSE]
         ELSE LET content == read_to_string(fs.files[config_path]) IN
              IF ~content.ok THEN [ok |-> FALSE]
              ELSE IF from_str(content.text).ok
                   THEN [ok |-> TRUE, v |-> from_str(content.text).v]
                   ELSE [ok |-> TRUE, v |-> JObj(EmptyMap)]
    ELSE [ok |-> TRUE, v |-> JObj(EmptyMap)]

\* Ensure mcpServers object exists.
ensure_servers(config) ==
    IF ~value_get(config, "mcpServers").some
    THEN index_set(config, "mcpServers", JObj(EmptyMap))
    ELSE [panic |-> FALSE, v |-> config]

ToolsOutcome(res, fs, notices) == [res |-> res, fs |-> fs, notices |-> notices]

\* What is around a call: whether stdout accepts writes, and how the write of
\* the registry ends.
Io(sink, write) == [sink |-> sink, write |-> write]

NoFault == Io(TRUE, "ok")

\* The first part of install_tools: load the registry, ensure mcpServers, add
\* the tools.
tools_merge(fs, rs, io, agent) ==
    LET failed(res, notices) ==
            [res |-> res, path |-> <<>>, v |-> JNull, notices |-> notices]
        config_path == get_config_path(rs[1])
    IN
    IF ~config_path.ok THEN failed("err", <<>>) ELSE
    LET loaded == load_config(fs, config_path.path) IN
    IF ~loaded.ok THEN failed("err", <<>>) ELSE
    LET ensured == ensure_servers(loaded.v) IN
    IF ensured.panic THEN failed("panic", <<>>) ELSE
    LET merged == add_tools_io(ensured.v, agent.mcp, 1, <<>>, io.sink) IN
    IF merged.panic THEN failed("panic", merged.notices)
    ELSE [res |-> "ok", path |-> config_path.path, v |-> merged.v,
          notices |-> merged.notices]

\* A write back that first reads the registry again and keeps the mcpServers
\* entries it finds there beside those of the config.
tools_store_merging(fs, config_path, config, io) ==
    LET found == load_config(fs, config_path)
        servers == IF found.ok THEN value_get(found.v, "mcpServers") ELSE None
        kept == IF servers.some /\ servers.v.t = "obj" THEN servers.v.o ELSE EmptyMap
        added == config.o["mcpServers"].o
        both == [k \in (DOMAIN kept) \cup (DOMAIN added) |->
                   IF k \in DOMAIN kept THEN kept[k] ELSE added[k]]
        d == create_dir_all(fs, Parent(config_path))
        w == fs_write_io(d.fs, config_path,
                         to_string_pretty(index_set(config, "mcpServers", JObj(both)).v),
                         io.write)
    IN  IF ~d.ok THEN Outcome("err", d.fs)
        ELSE IF ~w.ok THEN Outcome("err", w.fs) ELSE Outcome("ok", w.fs)

\* The second part: ensure the parent directory exists, write back.
tools_store(fs, config_path, config, io) ==
    LET d == create_dir_all(fs, Parent(config_path)) IN
    IF ~d.ok THEN Outcome("err", d.fs) ELSE
    LET w == fs_write_io(d.fs, config_path, to_string_pretty(config), io.write) IN
    IF ~w.ok THEN Outcome("err", w.fs) ELSE Outcome("ok", w.fs)

install_tools_io(fs, rs, io, agent) ==
    IF agent.mcp = <<>> THEN ToolsOutcome("ok", fs, <<>>) ELSE
    LET merged == tools_merge(fs, rs, io, agent) IN
    IF merged.res # "ok" THEN ToolsOutcome(merged.res, fs, merged.notices) ELSE
    LET stored == tools_store(fs, merged.path, merged.v, io) IN
    ToolsOutcome(stored.res, stored.fs, merged.notices)

\* install_tools when stdout accepts writes and the write ends well.
install_tools(fs, rs, agent) == install_tools_io(fs, rs, NoFault, agent)

\* A removal that does not look whether the file is there.
remove_agent_file_unchecked(fs, agent_file) == remove_file(fs, agent_file)

\* Remove agent file.
remove_agent_file(fs, agent_file) ==
    IF exists(fs, agent_file) THEN remove_file(fs, agent_file)
    ELSE [ok |-> TRUE, fs |-> fs]

\* An uninstall that forgets the skills directory.
remove_skills_dir_skipped(fs, skills_dir) == [ok |-> TRUE, fs |-> fs]

\* A removal of the base directory in place of the agent's skills directory.
remove_skills_dir_base(fs, skills_dir) ==
    IF exists(fs, Parent(Parent(skills_dir)))
    THEN remove_dir_all(fs, Parent(Parent(skills_dir)))
    ELSE [ok |-> TRUE, fs |-> fs]

\* A removal of the directory that holds the skills directories of all agents.
remove_skills_dir_shared(fs, skills_dir) ==
    IF exists(fs, skills_dir) THEN remove_dir_all(fs, Parent(skills_dir))
    ELSE [ok |-> TRUE, fs |-> fs]

\* Remove skills directory.
remove_skills_dir(fs, skills_dir) ==
    IF exists(fs, skills_dir) THEN remove_dir_all(fs, skills_dir)
    ELSE [ok |-> TRUE, fs |-> fs]

uninstall(fs, rs, agent_name) ==
    LET agents_dir == get_agents_dir(rs[1]) IN
    IF ~agents_dir.ok THEN Outcome("err", fs) ELSE
    LET f == remove_agent_file(fs, join(agents_dir.path, agent_name \o ".md")) IN
    IF ~f.ok THEN Outcome("err", f.fs) ELSE
    LET base_dir == get_base_dir(rs[2]) IN
    IF ~base_dir.ok THEN Outcome("err", f.fs) ELSE
    LET s == remove_skills_dir(f.fs, join(join(base_dir.path, "skills"), agent_name)) IN
    IF ~s.ok THEN Outcome("err", s.fs) ELSE Outcome("ok", s.fs)

\* ------------------------------------------------------------------ inputs

AgentNames == {"a", "b"}

\* A name no install is ever given.
GhostName == "ghost"

Identities ==
    {Identity("prompt one", None, None),
     Identity("# prompt two", Some("o1"), Some("X"))}

SkillPool == {Skill("s1", "c1"), Skill("s1", "c2"), Skill("s2", "c1")}

NoEnv == [k \in {} |-> ""]

ToolPool ==
    {McpTool("baz", "cmd1", <<"-y">>, [k \in {"KEY"} |-> "v"], None),
     McpTool("baz", "cmd2", <<>>, NoEnv, Some("https://setup")),
     McpTool("bar", "cmd1", <<>>, NoEnv, None)}

SeqsUpTo(S, n) == UNION {[1..k -> S] : k \in 0..n}

\* The AgentConfig an operation is given: the fields it does not read are
\* left empty.
IdentityAgent(n, id) == AgentConfig(n, "about " \o n, id, <<>>, <<>>)

SkillsAgent(n, skills) == AgentConfig(n, "about " \o n, Identity("", None, None), skills, <<>>)

ToolsAgent(mcp) == AgentConfig("a", "about a", Identity("", None, None), <<>>, mcp)

\* Every path resolution of a call succeeds.
AllResolved == <<TRUE, TRUE>>

\* --------------------------------------------------- the registry at the start
\* config.json is shared with the editor and its user: what the first call
\* finds there is not of this program's making.

Doc(layout, syn) == [k |-> "json", layout |-> layout, syn |-> syn]

PreBar == SObj(<< <<"command", SStr("old")>>, <<"disabled", SBool(TRUE)>> >>)

\* {"mcpServers":{"bar":{"command":"old","disabled":true}},"foo":1}
FooBarDoc ==
    Doc("compact", SObj(<< <<"mcpServers", SObj(<< <<"bar", PreBar>> >>)>>,
                           <<"foo", SNum("1")>> >>))

InitialRegistries ==
    {[k |-> "binary"],
     [k |-> "text", id |-> "{\"mcpServers\": {"],
     FooBarDoc,
     Doc("pretty", SObj(<< <<"foo", SNum("1")>>, <<"mcpServers", SNull>>,
                           <<"foo", SNum("2")>> >>)),
     Doc("pretty", SObj(<< <<"mcpServers", SStr("oops")>> >>)),
     Doc("compact", SArr(<<>>)),
     Doc("compact", SNull)}

NoFiles == [p \in {} |-> ""]

ConfigPath == <<"config.json">>

\* Nothing installed yet, and no registry.
FreshFileSystem == [dirs |-> {}, files |-> NoFiles]

WithRegistry(bytes) == [dirs |-> {<<>>}, files |-> [p \in {ConfigPath} |-> bytes]]

\* ------------------------------------------------------------------- state

VARIABLES
    dirs,       \* the directories below (and including) the base directory
    files,      \* the files: path -> bytes
    last,       \* the call that led to this state, with what it returned
    toolHist,   \* tool name -> the McpTool most recently installed under it,
                \* and whether it replaced another one installed before it
    skillHist,  \* agent name -> skill name -> content most recently written,
                \* since the agent's last uninstall
    installer,  \* the CodexInstaller the calls are made on
    calls       \* the install_tools invocations in flight, by process

vars == <<dirs, files, last, toolHist, skillHist, installer, calls>>

FS == [dirs |-> dirs, files |-> files]

\* No call was made yet.
NoCall ==
    [op |-> "none", name |-> "", res |-> "ok", count |-> 0,
     overwrote |-> FALSE, removed |-> {}, fault |-> "none", base |-> "none"]

\* The state after get_installer(Target::Codex, global), for one of the flags
\* and one of the file systems.
StartWith(fileSystems, flags) ==
    /\ \E fs \in fileSystems : dirs = fs.dirs /\ files = fs.files
    /\ last = NoCall
    /\ toolHist = [n \in {} |-> ""]
    /\ skillHist = [n \in {} |-> ""]
    /\ \E global \in flags : installer = get_installer("Codex", global)
    /\ calls = [p \in {} |-> ""]

StartFrom(fileSystems) == StartWith(fileSystems, {TRUE})

\* The call `op`, for the agent `name`, returned `out`: the file system it
\* left, and the record of the call.  count: the length of the sequence it
\* was given; overwrote: a file that existed holds other bytes now; removed: the
\* files that are gone.
\* fault: what failed around the call ("none" when nothing did); base: the
\* directory the call resolved as its base directory.
ReturnedUnder(op, name, count, fault, out) ==
    /\ dirs' = out.fs.dirs
    /\ files' = out.fs.files
    /\ last' = [op |-> op, name |-> name, res |-> out.res, count |-> count,
                overwrote |-> \E p \in (DOMAIN files) \cap (DOMAIN out.fs.files) :
                                 files[p] # out.fs.files[p],
                removed |-> (DOMAIN files) \ (DOMAIN out.fs.files),
                fault |-> fault,
                base |-> base_dir_of(installer)]
    /\ UNCHANGED <<installer, calls>>

Returned(op, name, count, out) == ReturnedUnder(op, name, count, "none", out)

\* toolHist after the tools of mcp, in order, were installed.
RECURSIVE NoteTools(_, _, _)
NoteTools(hist, mcp, i) ==
    IF i > Len(mcp) THEN hist
    ELSE NoteTools([n \in (DOMAIN hist) \cup {mcp[i].name} |->
                      IF n = mcp[i].name
                      THEN [tool |-> mcp[i],
                            replaced |-> n \in DOMAIN hist /\ hist[n].tool # mcp[i]]
                      ELSE hist[n]], mcp, i + 1)

\* An agent's skill history after the skills, in order, were written.
RECURSIVE NoteSkills(_, _, _)
NoteSkills(hist, skills, i) ==
    IF i > Len(skills) THEN hist
    ELSE NoteSkills([n \in (DOMAIN hist) \cup {skills[i].name} |->
                       IF n = skills[i].name THEN skills[i].content ELSE hist[n]],
                    skills, i + 1)

\* What may fail around a call: "resolve1" and "resolve2", the first and the
\* second resolution of the configuration directory; "sink", stdout rejects
\* writes; "denied", "truncated" and "partial", the ways fs::write fails.
ResolveFaults == {"resolve1", "resolve2"}

WriteFaults == {"denied", "truncated", "partial"}

Resolutions(fault) == <<fault # "resolve1", fault # "resolve2">>

IoOf(fault) == Io(fault # "sink", IF fault \in WriteFaults THEN fault ELSE "ok")

InstallIdentityUnder(names, identities, faults) ==
    \E n \in names, id \in identities, fault \in faults :
        /\ ReturnedUnder("install_identity", n, 0, fault,
                         install_identity(FS, Resolutions(fault), IdentityAgent(n, id)))
        /\ UNCHANGED <<toolHist, skillHist>>

InstallIdentity(names, identities) == InstallIdentityUnder(names, identities, {"none"})

InstallSkillsUnder(names, pool, faults) ==
    \E n \in names, skills \in SeqsUpTo(pool, MaxSkills), fault \in faults :
        LET out == install_skills(FS, Resolutions(fault), SkillsAgent(n, skills)) IN
        /\ ReturnedUnder("install_skills", n, Len(skills), fault, out)
        /\ skillHist' =
             IF out.res = "ok" /\ skills # <<>>
             THEN [m \in (DOMAIN skillHist) \cup {n} |->
                     IF m = n
                     THEN NoteSkills(IF n \in DOMAIN skillHist THEN skillHist[n]
                                     ELSE [x \in {} |-> ""], skills, 1)
                     ELSE skillHist[m]]
             ELSE skillHist
        /\ UNCHANGED toolHist

InstallSkills(names, pool) == InstallSkillsUnder(names, pool, {"none"})

InstallToolsUnder(pool, faults) ==
    \E mcp \in SeqsUpTo(pool, MaxTools), fault \in faults :
        LET out == install_tools_io(FS, Resolutions(fault), IoOf(fault), ToolsAgent(mcp)) IN
        /\ ReturnedUnder("install_tools", "", Len(mcp), fault, Outcome(out.res, out.fs))
        /\ toolHist' = IF out.res = "ok" THEN NoteTools(toolHist, mcp, 1) ELSE toolHist
        /\ UNCHANGED skillHist

InstallTools(pool) == InstallToolsUnder(pool, {"none"})

UninstallUnder(names, faults) ==
    \E n \in names, fault \in faults :
        LET out == uninstall(FS, Resolutions(fault), n) IN
        /\ ReturnedUnder("uninstall", n, 0, fault, out)
        /\ skillHist' = IF out.res = "ok"
                        THEN [m \in (DOMAIN skillHist) \ {n} |-> skillHist[m]]
                        ELSE skillHist
        /\ UNCHANGED toolHist

Uninstall(names) == UninstallUnder(names, {"none"})

\* Two invocations of install_tools, in two processes, on the one registry
\* file.  An invocation reads the registry and merges its tools into what it
\* read in one step, and writes the result back in a later step; nothing
\* keeps the other invocation from stepping in between.
\* pc: "idle", "called", "merged" (read and merged, not yet written), "done";
\* seen: the writes that had completed when the invocation read the registry;
\* wroteAt: the position of its write among the writes, 0 before it.
Procs == {1, 2}

IdleCall ==
    [pc |-> "idle", mcp |-> <<>>, path |-> <<>>, config |-> JNull, res |-> "none",
     seen |-> 0, wroteAt |-> 0]

Writes == Cardinality({q \in Procs : calls[q].wroteAt > 0})

RaceCall(p, pool) ==
    /\ calls[p].pc = "idle"
    /\ \E mcp \in SeqsUpTo(pool, MaxTools) :
           calls' = [calls EXCEPT ![p] = [IdleCall EXCEPT !.pc = "called", !.mcp = mcp]]
    /\ UNCHANGED <<dirs, files, last, toolHist, skillHist, installer>>

RaceLoad(p) ==
    /\ calls[p].pc = "called"
    /\ LET merged == tools_merge(FS, AllResolved, NoFault, ToolsAgent(calls[p].mcp)) IN
       calls' = [calls EXCEPT ![p] =
                   IF calls[p].mcp = <<>> THEN [@ EXCEPT !.pc = "done", !.res = "ok"]
                   ELSE IF merged.res # "ok" THEN [@ EXCEPT !.pc = "done", !.res = merged.res]
                   ELSE [@ EXCEPT !.pc = "merged", !.path = merged.path,
                                  !.config = merged.v, !.seen = Writes]]
    /\ UNCHANGED <<dirs, files, last, toolHist, skillHist, installer>>

RaceStore(p) ==
    /\ calls[p].pc = "merged"
    /\ LET stored == tools_store(FS, calls[p].path, calls[p].config, NoFault) IN
       /\ dirs' = stored.fs.dirs
       /\ files' = stored.fs.files
       /\ calls' = [calls EXCEPT ![p] =
                      [@ EXCEPT !.pc = "done", !.res = stored.res, !.wroteAt = Writes + 1]]
    /\ UNCHANGED <<last, toolHist, skillHist, installer>>

\* Spec: the identity files and the skill directories of two agents in full,
\* beside a registry that one tool is installed into.
Init == StartFrom({FreshFileSystem, WithRegistry(FooBarDoc)})

Next ==
    \/ InstallIdentity(AgentNames, Identities)
    \/ InstallSkills(AgentNames, SkillPool)
    \/ InstallTools({t \in ToolPool : t.command = "cmd1" /\ t.name = "baz"})
    \/ Uninstall(AgentNames \cup {GhostName})

Spec == Init /\ [][Next]_vars

\* SpecRegistry: the registry in full (every starting content, every tool),
\* beside one agent with one identity and one skill.
InitRegistry ==
    StartFrom({FreshFileSystem} \cup {WithRegistry(r) : r \in InitialRegistries})

NextRegistry ==
    \/ InstallIdentity({"a"}, {id \in Identities : ~id.model.some})
    \/ InstallSkills({"a"}, {s \in SkillPool : s.name = "s1" /\ s.content = "c1"})
    \/ InstallTools(ToolPool)
    \/ Uninstall({"a", GhostName})

SpecRegistry == InitRegistry /\ [][NextRegistry]_vars

\* SpecIsolation: two agents with their identity files and two skills each,
\* beside a registry that one tool is installed into.
NextIsolation ==
    \/ InstallIdentity(AgentNames, Identities)
    \/ InstallSkills(AgentNames, {s \in SkillPool : s.content = "c1"})
    \/ InstallTools({t \in ToolPool : t.command = "cmd1" /\ t.name = "baz"})
    \/ Uninstall(AgentNames \cup {GhostName})

SpecIsolation == Init /\ [][NextIsolation]_vars

\* SpecMerge: sequential use by two agents, from no registry or from a
\* registry that is a JSON object with an object-valued mcpServers.  Of the
\* two tools bar replaces an entry the registry may hold and baz adds one.
InitMerge == StartFrom({FreshFileSystem, WithRegistry(FooBarDoc)})

NextMerge ==
    \/ InstallIdentity(AgentNames, {id \in Identities : ~id.model.some})
    \/ InstallSkills(AgentNames, {s \in SkillPool : s.name = "s1" /\ s.content = "c1"})
    \/ InstallTools({t \in ToolPool : t.command = "cmd1"})
    \/ Uninstall(AgentNames)

SpecMerge == InitMerge /\ [][NextMerge]_vars

\* SpecFaults: one agent, with calls around which a resolution of the
\* configuration directory, stdout or the write of the registry may fail.
\* Of the two tools one carries a setup_url.
FaultTools == {t \in ToolPool : t.command = "cmd2" \/ t.name = "bar"}

NextFaults ==
    \/ InstallIdentityUnder({"a"}, {id \in Identities : ~id.model.some}, {"none", "resolve1"})
    \/ InstallSkillsUnder({"a"}, {s \in SkillPool : s.name = "s1" /\ s.content = "c1"},
                          {"none", "resolve1"})
    \/ InstallToolsUnder(FaultTools, {"none", "resolve1", "sink"} \cup WriteFaults)
    \/ UninstallUnder({"a"}, {"none"} \cup ResolveFaults)

SpecFaults == Init /\ [][NextFaults]_vars

\* SpecFactory: the calls of SpecRegistry on the installer the factory
\* returns for the Codex target, for either flag.
InitFactory == StartWith({FreshFileSystem, WithRegistry(FooBarDoc)}, BOOLEAN)

SpecFactory == InitFactory /\ [][NextRegistry]_vars

\* SpecRace: process 1 installs tools named bar and process 2 tools named baz,
\* into no registry or into one that holds foo and an older bar.
InitRace ==
    /\ \E fs \in {FreshFileSystem, WithRegistry(FooBarDoc)} :
           dirs = fs.dirs /\ files = fs.files
    /\ last = NoCall
    /\ toolHist = [n \in {} |-> ""]
    /\ skillHist = [n \in {} |-> ""]
    /\ installer = get_installer("Codex", TRUE)
    /\ calls = [p \in Procs |-> IdleCall]

NextRace ==
    \/ RaceCall(1, {t \in ToolPool : t.name = "bar"})
    \/ RaceCall(2, {t \in ToolPool : t.name = "baz"})
    \/ \E p \in Procs : RaceLoad(p)
    \/ \E p \in Procs : RaceStore(p)

SpecRace == InitRace /\ [][NextRace]_vars

\* SpecIdentity: one agent whose identity has or lacks a model and has or
\* lacks an icon, each way, beside one skill and one tool.
EveryIdentity ==
    {Identity("prompt one", model, icon) :
        model \in {None, Some("o1")}, icon \in {None, Some("X")}}

NextIdentity ==
    \/ InstallIdentity({"a"}, EveryIdentity)
    \/ InstallSkills({"a"}, {s \in SkillPool : s.name = "s1" /\ s.content = "c1"})
    \/ InstallTools({t \in ToolPool : t.command = "cmd1" /\ t.name = "baz"})
    \/ Uninstall({"a", GhostName})

SpecIdentity == Init /\ [][NextIdentity]_vars

\* ================================================================== claims

\* What the claims read off a file system.

HasRegistry(fs) == ConfigPath \in DOMAIN fs.files

\* The registry file holds a JSON document.
IsJson(fs) == HasRegistry(fs) /\ fs.files[ConfigPath].k = "json"

\* The JSON value of the registry file.
RegistryValue(fs) == from_str(fs.files[ConfigPath]).v

\* The registry file holds a JSON object.
IsJsonObject(fs) == IsJson(fs) /\ RegistryValue(fs).t = "obj"

\* The registry file holds a JSON object whose mcpServers is an object.
HasServers(fs) ==
    /\ IsJsonObject(fs)
    /\ "mcpServers" \in DOMAIN RegistryValue(fs).o
    /\ RegistryValue(fs).o["mcpServers"].t = "obj"

Servers(fs) == RegistryValue(fs).o["mcpServers"].o

ToolNames(mcp) == {mcp[i].name : i \in DOMAIN mcp}

\* {command, args, env} of a tool, as a JSON value.
ExpectedEntry(tool) ==
    [t |-> "obj",
     o |-> [k \in {"args", "command", "env"} |->
              IF k = "command" THEN [t |-> "str", s |-> tool.command]
              ELSE IF k = "args"
              THEN [t |-> "arr", a |-> [i \in 1..Len(tool.args) |->
                                          [t |-> "str", s |-> tool.args[i]]]]
              ELSE [t |-> "obj", o |-> [e \in DOMAIN tool.env |->
                                          [t |-> "str", s |-> tool.env[e]]]]]]

NonEmptyToolSeqs == SeqsUpTo(ToolPool, MaxTools) \ {<<>>}

\* C1 -- Registry preservation: when the registry file holds a JSON object, a
\* successful install_tools with a non-empty tool sequence leaves every
\* top-level key other than mcpServers as it was, leaves every mcpServers
\* entry not named by a tool of the agent as it was, and leaves mcpServers an
\* object with an entry for every tool of the agent.
C1_RegistryPreservation ==
    \A mcp \in NonEmptyToolSeqs :
        LET out == install_tools(FS, AllResolved, ToolsAgent(mcp)) IN
        (IsJsonObject(FS) /\ out.res = "ok") =>
            /\ IsJsonObject(out.fs)
            /\ DOMAIN RegistryValue(out.fs).o = (DOMAIN RegistryValue(FS).o) \cup {"mcpServers"}
            /\ \A k \in (DOMAIN RegistryValue(FS).o) \ {"mcpServers"} :
                   RegistryValue(out.fs).o[k] = RegistryValue(FS).o[k]
            /\ HasServers(out.fs)
            /\ ToolNames(mcp) \subseteq DOMAIN Servers(out.fs)
            /\ HasServers(FS) =>
                   \A k \in (DOMAIN Servers(FS)) \ ToolNames(mcp) :
                       /\ k \in DOMAIN Servers(out.fs)
                       /\ Servers(out.fs)[k] = Servers(FS)[k]
            /\ (DOMAIN Servers(out.fs)) \ ToolNames(mcp) \subseteq
                   IF HasServers(FS) THEN DOMAIN Servers(FS) ELSE {}

\* The registry that held foo and mcpServers.bar now holds baz beside them.
C1_Witness ==
    /\ last.op = "install_tools" /\ last.res = "ok" /\ last.count > 0
    /\ HasServers(FS)
    /\ DOMAIN RegistryValue(FS).o = {"foo", "mcpServers"}
    /\ RegistryValue(FS).o["foo"] = JNum("1")
    /\ DOMAIN Servers(FS) = {"bar", "baz"}
    /\ Servers(FS)["bar"] = syntax_to_value(PreBar)

\* C2 -- Overwrite semantics: after any sequence of successful install_tools
\* calls, mcpServers[n] is exactly {command, args, env} of the tool most
\* recently installed under the name n; nothing of an earlier value is left.
C2_OverwriteSemantics ==
    \A n \in DOMAIN toolHist :
        /\ HasServers(FS)
        /\ n \in DOMAIN Servers(FS)
        /\ Servers(FS)[n] = ExpectedEntry(toolHist[n].tool)

\* baz was installed with cmd1 (and an env entry), then with cmd2.
C2_Witness ==
    /\ last.op = "install_tools" /\ last.res = "ok"
    /\ "baz" \in DOMAIN toolHist
    /\ toolHist["baz"].replaced
    /\ toolHist["baz"].tool.command = "cmd2"
    /\ HasServers(FS)
    /\ Servers(FS)["baz"].o["command"] = JStr("cmd2")
    /\ Servers(FS)["baz"].o["env"] = JObj(EmptyMap)

\* The mcpServers object that holds exactly the tools last installed.
InstalledServers(hist) ==
    [t |-> "obj", o |-> [n \in DOMAIN hist |-> ExpectedEntry(hist[n].tool)]]

\* C3 -- Corrupt-registry tolerance: when the registry file exists and does
\* not hold valid JSON, install_tools with a non-empty tool sequence succeeds
\* and leaves a JSON object whose one key, mcpServers, holds exactly the
\* tools of the agent.
C3_CorruptRegistryTolerated ==
    [][(HasRegistry(FS) /\ ~IsJson(FS) /\ last'.op = "install_tools" /\ last'.count > 0) =>
          /\ last'.res = "ok"
          /\ files'[ConfigPath].k = "json"
          /\ from_str(files'[ConfigPath]).v =
                 [t |-> "obj", o |-> [k \in {"mcpServers"} |-> InstalledServers(toolHist')]]]_vars

\* The same for a registry file that holds text: valid UTF-8, not JSON.
CorruptTextTolerated ==
    [][(HasRegistry(FS) /\ files[ConfigPath].k = "text"
            /\ last'.op = "install_tools" /\ last'.count > 0) =>
          /\ last'.res = "ok"
          /\ files'[ConfigPath].k = "json"
          /\ from_str(files'[ConfigPath]).v =
                 [t |-> "obj", o |-> [k \in {"mcpServers"} |-> InstalledServers(toolHist')]]]_vars

\* The identity file and the skills directory of an agent.
AgentFile(n) == <<"agents", n \o ".md">>

SkillsDir(n) == <<"skills", n>>

SkillFile(n, skill) == <<"skills", n, skill \o ".md">>

\* The files below an agent's skills directory.
SkillFiles(fs, n) == {p \in DOMAIN fs.files : IsPrefix(SkillsDir(n), p)}

\* C4 -- Uninstall idempotence: in every reachable state uninstall(name)
\* succeeds, for a name never installed and for an installed agent, and a
\* second uninstall(name) right after it succeeds and changes nothing.
C4_UninstallIdempotent ==
    /\ last.op = "uninstall" => last.res = "ok"
    /\ \A n \in AgentNames \cup {GhostName} :
           LET first == uninstall(FS, AllResolved, n) IN
           /\ first.res = "ok"
           /\ uninstall(first.fs, AllResolved, n) = Outcome("ok", first.fs)

\* Agent a, with an identity file and a skill file, was uninstalled.
C4_Witness ==
    /\ last.op = "uninstall" /\ last.name = "a" /\ last.res = "ok"
    /\ {AgentFile("a"), SkillFile("a", "s1")} \subseteq last.removed

\* C5 -- Complete removal: after a successful uninstall(name) neither the
\* identity file agents/{name}.md nor the skills directory skills/{name}, nor
\* any file below it, exists.
C5_CompleteRemoval ==
    (last.op = "uninstall" /\ last.res = "ok") =>
        /\ ~exists(FS, AgentFile(last.name))
        /\ ~exists(FS, SkillsDir(last.name))
        /\ SkillFiles(FS, last.name) = {}

\* Agent b's identity file and both its skill files went with the uninstall.
C5_Witness ==
    /\ last.op = "uninstall" /\ last.name = "b" /\ last.res = "ok"
    /\ last.removed = {AgentFile("b"), SkillFile("b", "s1"), SkillFile("b", "s2")}

\* C6 -- uninstall leaves the tool registry as it is: config.json exists
\* after uninstall(name) exactly if it did before, with the same bytes.
C6_UninstallKeepsRegistry ==
    [][last'.op = "uninstall" =>
          /\ HasRegistry([dirs |-> dirs', files |-> files']) <=> HasRegistry(FS)
          /\ HasRegistry(FS) => files'[ConfigPath] = files[ConfigPath]]_vars

\* An agent's files were removed and the tool installed before is still
\* in the registry.
C6_Witness ==
    /\ last.op = "uninstall" /\ last.res = "ok" /\ last.removed # {}
    /\ "baz" \in DOMAIN toolHist
    /\ HasServers(FS)
    /\ "baz" \in DOMAIN Servers(FS)

\* The identity document of an agent: the header fields name, description,
\* model and icon in that order, then the system prompt.
ExpectedDocument(agent) ==
    "---\n"
      \o "name: " \o agent.name \o "\n"
      \o "description: " \o agent.description \o "\n"
      \o "model: " \o (IF agent.identity.model.some THEN agent.identity.model.v ELSE "gpt-4o") \o "\n"
      \o "icon: " \o (IF agent.identity.icon.some THEN agent.identity.icon.v ELSE "U+1F916") \o "\n"
      \o "---\n"
      \o "\n"
      \o agent.identity.system_prompt

\* C7 -- install_identity is a full overwrite and idempotent: from any state
\* of agents/{name}.md it succeeds and leaves exactly the rendering of the
\* agent in the file, so a second call with the same AgentConfig changes
\* nothing.
C7_IdentityOverwrite ==
    \A n \in AgentNames, id \in Identities :
        LET out == install_identity(FS, AllResolved, IdentityAgent(n, id)) IN
        /\ out.res = "ok"
        /\ AgentFile(n) \in DOMAIN out.fs.files
        /\ out.fs.files[AgentFile(n)] = ExpectedDocument(IdentityAgent(n, id))
        /\ install_identity(out.fs, AllResolved, IdentityAgent(n, id)) = out

\* Agent a's identity file held the other identity and holds this one now.
C7_Witness ==
    /\ last.op = "install_identity" /\ last.name = "a" /\ last.res = "ok"
    /\ last.overwrote
    /\ files[AgentFile("a")] =
         "---\nname: a\ndescription: about a\nmodel: o1\nicon: X\n---\n\n# prompt two"

\* C8 -- Empty-sequence no-op: install_skills with no skills and
\* install_tools with no tools return success and leave every directory and
\* every file as it was; the registry is neither created nor rewritten.
C8_EmptySequenceNoOp ==
    /\ \A n \in AgentNames :
           install_skills(FS, AllResolved, SkillsAgent(n, <<>>)) = Outcome("ok", FS)
    /\ LET out == install_tools(FS, AllResolved, ToolsAgent(<<>>)) IN
           out.res = "ok" /\ out.fs = FS
    /\ (last.op \in {"install_skills", "install_tools"} /\ last.count = 0) =>
           last.res = "ok" /\ ~last.overwrote /\ last.removed = {}

\* install_tools was given no tools where there is no registry and no
\* directory: there is none afterwards.
C8_Witness ==
    /\ last.op = "install_tools" /\ last.count = 0 /\ last.res = "ok"
    /\ ~HasRegistry(FS)
    /\ dirs = {}

\* C9 -- install_skills is additive: between two uninstalls of an agent, the
\* files of skills/{name} are those of every skill name installed so far,
\* each holding the content most recently written for it.
C9_SkillsAdditive ==
    \A n \in AgentNames :
        IF n \in DOMAIN skillHist
        THEN /\ SkillFiles(FS, n) = {SkillFile(n, s) : s \in DOMAIN skillHist[n]}
             /\ \A s \in DOMAIN skillHist[n] : files[SkillFile(n, s)] = skillHist[n][s]
        ELSE SkillFiles(FS, n) = {}

\* The last call listed one skill, s1, and rewrote it; s2, of an earlier
\* call, is still there.
C9_Witness ==
    /\ last.op = "install_skills" /\ last.name = "a" /\ last.res = "ok"
    /\ last.count = 1 /\ last.overwrote
    /\ SkillFiles(FS, "a") = {SkillFile("a", "s1"), SkillFile("a", "s2")}
    /\ files[SkillFile("a", "s1")] = "c2"
    /\ files[SkillFile("a", "s2")] = "c1"

\* C10 -- Every operation is retryable and idempotent: install_skills and
\* install_tools, run twice in a row with the same AgentConfig, succeed both
\* times and leave the files and the registry that one run leaves.
C10_RetryableIdempotent ==
    /\ \A n \in AgentNames, skills \in SeqsUpTo(SkillPool, MaxSkills) :
           LET once == install_skills(FS, AllResolved, SkillsAgent(n, skills)) IN
           /\ once.res = "ok"
           /\ install_skills(once.fs, AllResolved, SkillsAgent(n, skills)) = Outcome("ok", once.fs)
    /\ \A mcp \in SeqsUpTo(ToolPool, MaxTools) :
           LET once == install_tools(FS, AllResolved, ToolsAgent(mcp)) IN
           /\ once.res = "ok"
           /\ install_tools(once.fs, AllResolved, ToolsAgent(mcp)).res = "ok"
           /\ install_tools(once.fs, AllResolved, ToolsAgent(mcp)).fs = once.fs

\* What stands of it: a run that succeeded, run again, succeeds and changes
\* nothing; a run that failed left the file system as it was.
IdempotentWhenSuccessful ==
    /\ \A n \in AgentNames, skills \in SeqsUpTo(SkillPool, MaxSkills) :
           LET once == install_skills(FS, AllResolved, SkillsAgent(n, skills)) IN
           /\ once.res = "ok"
           /\ install_skills(once.fs, AllResolved, SkillsAgent(n, skills)) = Outcome("ok", once.fs)
    /\ \A mcp \in SeqsUpTo(ToolPool, MaxTools) :
           LET once == install_tools(FS, AllResolved, ToolsAgent(mcp)) IN
           IF once.res = "ok"
           THEN /\ install_tools(once.fs, AllResolved, ToolsAgent(mcp)).res = "ok"
                /\ install_tools(once.fs, AllResolved, ToolsAgent(mcp)).fs = once.fs
           ELSE once.fs = FS

\* The header line of a field.
FieldLine(field, value) == field \o ": " \o value \o "\n"

\* C11 -- Default substitution: the model field of the identity document is
\* agent.identity.model when there is one and "gpt-4o" when there is none, and
\* its icon field is agent.identity.icon when there is one and the robot
\* glyph when there is none, each whatever the other is.
C11_DefaultSubstitution ==
    \A n \in AgentNames, prompt \in {"prompt one", ""},
       model \in {None, Some("o1")}, icon \in {None, Some("X")} :
        LET agent == IdentityAgent(n, Identity(prompt, model, icon))
            out == install_identity(FS, AllResolved, agent)
        IN  /\ out.res = "ok"
            /\ out.fs.files[<<"agents", n \o ".md">>] =
                 "---\n" \o FieldLine("name", n) \o FieldLine("description", "about " \o n)
                   \o FieldLine("model", IF model = None THEN "gpt-4o" ELSE model.v)
                   \o FieldLine("icon", IF icon = None THEN "U+1F916" ELSE icon.v)
                   \o "---\n\n" \o prompt

\* The identity given had an icon and no model: the file has the default
\* model beside the icon given.
C11_Witness ==
    /\ last.op = "install_identity" /\ last.name = "a" /\ last.res = "ok"
    /\ files[<<"agents", "a.md">>] =
         "---\nname: a\ndescription: about a\nmodel: gpt-4o\nicon: X\n---\n\nprompt one"

\* C13 -- Shape tolerance: when the registry file holds well-formed JSON of
\* any shape (a top-level value that is not an object, or an object whose
\* mcpServers is not an object), install_tools with a non-empty tool sequence
\* returns success and leaves a JSON object whose mcpServers is an object
\* holding every installed tool.
C13_AnyShapeTolerated ==
    [][(IsJson(FS) /\ last'.op = "install_tools" /\ last'.count > 0) =>
          /\ last'.res = "ok"
          /\ HasServers(FS')
          /\ DOMAIN toolHist' \subseteq DOMAIN Servers(FS')]_vars

\* The shapes the index assignments accept: a top-level null or object, with
\* mcpServers absent, null or an object.
IndexableShape(v) ==
    \/ v = JNull
    \/ /\ v.t = "obj"
       /\ "mcpServers" \in DOMAIN v.o => v.o["mcpServers"].t \in {"null", "obj"}

\* The same for the shapes the index assignments accept.
IndexableShapeTolerated ==
    [][(IsJson(FS) /\ IndexableShape(RegistryValue(FS))
            /\ last'.op = "install_tools" /\ last'.count > 0) =>
          /\ last'.res = "ok"
          /\ HasServers(FS')
          /\ DOMAIN toolHist' \subseteq DOMAIN Servers(FS')]_vars

\* The identity file and the skill files of an agent, with their contents.
OwnFiles(fs, n) ==
    [p \in {q \in DOMAIN fs.files : q = AgentFile(n) \/ IsPrefix(SkillsDir(n), q)}
       |-> fs.files[p]]

\* C15 -- Agent isolation: for two distinct agent names A and B, an
\* install_identity, install_skills or uninstall performed for A leaves B's
\* identity file and every file in B's skills directory as they were (same
\* existence, same content), from every reachable state.
C15_AgentIsolation ==
    [][\A A \in AgentNames \cup {GhostName}, B \in AgentNames :
          (A # B /\ last'.name = A
               /\ last'.op \in {"install_identity", "install_skills", "uninstall"}) =>
              /\ OwnFiles(FS', B) = OwnFiles(FS, B)
              /\ exists(FS', SkillsDir(B)) = exists(FS, SkillsDir(B))]_vars

\* Agent a, installed with an identity and a skill, was uninstalled while
\* agent b's identity file and both its skill files stay.
C15_Witness ==
    /\ last.op = "uninstall" /\ last.name = "a" /\ last.res = "ok"
    /\ {AgentFile("a"), SkillFile("a", "s2")} \subseteq last.removed
    /\ DOMAIN OwnFiles(FS, "b") = {AgentFile("b"), SkillFile("b", "s1"), SkillFile("b", "s2")}

\* The top-level keys and the mcpServers keys of the registry.
TopKeys(fs) == IF IsJsonObject(fs) THEN DOMAIN RegistryValue(fs).o ELSE {}

ServerKeys(fs) == IF HasServers(fs) THEN DOMAIN Servers(fs) ELSE {}

\* C16 -- No registry entry is lost in sequential use: starting from no
\* registry or from a JSON object with an object-valued mcpServers, no call of
\* install_identity, install_skills, install_tools or uninstall removes the
\* registry, a top-level key of it or a key of its mcpServers.
C16_EntriesNeverLost ==
    [][/\ HasRegistry(FS) => HasServers(FS) /\ HasServers(FS')
       /\ TopKeys(FS) \subseteq TopKeys(FS')
       /\ ServerKeys(FS) \subseteq ServerKeys(FS')]_vars

\* bar, present from the start, was replaced by an installation, baz was
\* added, and foo, bar and baz are all there after an uninstall.
C16_Witness ==
    /\ last.op = "uninstall" /\ last.res = "ok" /\ last.removed # {}
    /\ DOMAIN toolHist = {"bar", "baz"}
    /\ TopKeys(FS) = {"foo", "mcpServers"}
    /\ ServerKeys(FS) = {"bar", "baz"}
    /\ Servers(FS)["bar"] # syntax_to_value(PreBar)

\* The call that just returned is one of those that resolve the
\* configuration directory: install_skills and install_tools return before
\* resolving when given nothing to install.
Resolving(call) ==
    call.op \in {"install_skills", "install_tools"} => call.count > 0

\* C18 -- A resolution failure aborts before any change: when a resolution of
\* the base directory fails during install_identity, install_skills
\* (non-empty), install_tools (non-empty) or uninstall, the call returns an
\* error and has created, written and removed nothing.
C18_ResolutionFailureAborts ==
    [][(last'.fault \in ResolveFaults /\ Resolving(last')) =>
          /\ last'.res = "err"
          /\ dirs' = dirs
          /\ files' = files]_vars

\* The same for a failure of the first resolution of the call.
FirstResolutionFailureAborts ==
    [][(last'.fault = "resolve1" /\ Resolving(last')) =>
          /\ last'.res = "err"
          /\ dirs' = dirs
          /\ files' = files]_vars

\* What the registry file holds, if it is there.
RegistryBytes(fs) == IF HasRegistry(fs) THEN Some(fs.files[ConfigPath]) ELSE None

\* The complete documents a successful install_tools on fs may leave.
MergedDocuments(fs) ==
    {to_string_pretty(merged.v) :
        merged \in {m \in {tools_merge(fs, AllResolved, NoFault, ToolsAgent(mcp)) :
                             mcp \in SeqsUpTo(FaultTools, MaxTools) \ {<<>>}} :
                      m.res = "ok"}}

\* The call that just returned is an install_tools with tools to install that
\* returned success or a failure of the write.
WroteRegistry(call) ==
    /\ call.op = "install_tools" /\ call.count > 0
    /\ \/ call.fault = "none" /\ call.res = "ok"
       \/ call.fault \in WriteFaults /\ call.res = "err"

\* C17 -- Atomic replacement: whenever install_tools returns, with success or
\* with a failure of the write, the registry file holds its complete pre-call
\* content or the complete merged content, never an empty or cut document.
C17_AtomicReplacement ==
    [][WroteRegistry(last') =>
          \/ RegistryBytes(FS') = RegistryBytes(FS)
          \/ /\ HasRegistry(FS')
             /\ files'[ConfigPath] \in MergedDocuments(FS)]_vars

\* The same when the write fails before the file is opened or does not fail.
AtomicUnlessCut ==
    [][(WroteRegistry(last') /\ last'.fault \notin {"truncated", "partial"}) =>
          \/ RegistryBytes(FS') = RegistryBytes(FS)
          \/ /\ HasRegistry(FS')
             /\ files'[ConfigPath] \in MergedDocuments(FS)]_vars

\* C14 -- A failing advisory sink does not fail the installation: when stdout
\* rejects the write of a setup notice, install_tools with tools to install
\* still returns success and leaves the complete merged registry.
C14_SinkFailureTolerated ==
    [][(last'.op = "install_tools" /\ last'.fault = "sink" /\ last'.count > 0) =>
          /\ last'.res = "ok"
          /\ HasRegistry(FS')
          /\ files'[ConfigPath] \in MergedDocuments(FS)]_vars

\* The notices of the tools from the i-th on: one, naming the tool and the
\* URL, for each tool that carries a setup_url.
RECURSIVE ExpectedNotices(_, _)
ExpectedNotices(mcp, i) ==
    IF i > Len(mcp) THEN <<>>
    ELSE (IF mcp[i].setup_url = None THEN <<>>
          ELSE <<[tool |-> mcp[i].name, url |-> mcp[i].setup_url.v]>>)
         \o ExpectedNotices(mcp, i + 1)

\* With a sink that accepts writes, a successful install_tools emits a notice
\* for every tool that carries a setup_url and for no other tool.
NoticePerSetupUrl ==
    \A mcp \in SeqsUpTo(ToolPool, MaxTools) :
        LET out == install_tools(FS, AllResolved, ToolsAgent(mcp)) IN
        out.res = "ok" => out.notices = ExpectedNotices(mcp, 1)

\* C19 -- The flag given to the factory selects the directory: the base
\* directory that install_identity, install_skills, install_tools and
\* uninstall operate on is the one the path resolver returns for the Codex
\* target and the flag given to get_installer.
C19_FlagSelectsDirectory ==
    [][(last'.op # "none" /\ Resolving(last')) =>
          last'.base = resolve_base_dir(installer.target, installer.global)]_vars

\* The same for the installer of a global installation.
GlobalFlagSelectsDirectory ==
    [][(last'.op # "none" /\ Resolving(last') /\ installer.global) =>
          last'.base = resolve_base_dir(installer.target, installer.global)]_vars

\* Both invocations had tools to install and have returned success.
BothInstalled ==
    \A p \in Procs : calls[p].pc = "done" /\ calls[p].res = "ok" /\ calls[p].mcp # <<>>

\* Both invocations read the registry before either wrote it.
BothReadFirst == \A p \in Procs : calls[p].seen = 0

\* The registry holds, under each name of the tools, the entry the invocation
\* installed.
HoldsEntries(fs, mcp) ==
    LET installed == NoteTools([n \in {} |-> ""], mcp, 1) IN
    \A n \in DOMAIN installed :
        /\ n \in ServerKeys(fs)
        /\ Servers(fs)[n] = ExpectedEntry(installed[n].tool)

\* C12 -- Lost-update race: of two install_tools invocations with different
\* tool names that both returned success, when both read the registry before
\* either wrote it the registry lacks the entry of the one that wrote first,
\* and when one ran after the other the entries of both are present.
C12_LostUpdate ==
    BothInstalled =>
        IF BothReadFirst
        THEN \E p \in Procs : calls[p].wroteAt = 1 /\ ~HoldsEntries(FS, calls[p].mcp)
        ELSE \A p \in Procs : HoldsEntries(FS, calls[p].mcp)

\* Both read the registry that held foo and the older bar, process 1 wrote
\* first and process 2 second: both returned success, baz is there and bar
\* is the older one still.
C12_Witness ==
    /\ BothInstalled /\ BothReadFirst
    /\ calls[1].wroteAt = 1 /\ calls[2].wroteAt = 2
    /\ HoldsEntries(FS, calls[2].mcp)
    /\ ~HoldsEntries(FS, calls[1].mcp)
    /\ ServerKeys(FS) = {"bar", "baz"}
    /\ Servers(FS)["bar"] = syntax_to_value(PreBar)

====
